---- MODULE Spec2Model ----
(***************************************************************************)
(* rspl: the stream processor language (Get / Put), its evaluator `eval`,  *)
(* the combinators map, filter, compose, alternate and bind, and the       *)
(* streams they are evaluated on.                                          *)
(*                                                                         *)
(* Closures are defunctionalised: a boxed closure of the source is a       *)
(* record holding what the closure captures, `apply` runs the body of a    *)
(* Get closure on an input element and `force` runs the body of a thunk.   *)
(***************************************************************************)
EXTENDS Integers, Sequences, FiniteSets, TLC

(***************************************************************************)
(* Bounds of the model.                                                    *)
(***************************************************************************)
\* longest explicit prefix of an input list (the rest is constant)
MaxLen == 2
\* number of times the consumer advances the output stream
MaxAdv == 3
\* iterations after which a loop or a recursion that found no Put is
\* taken to run forever
MaxLoop == 9
\* largest capacity a channel is made with
MaxCap == 2
\* most events the input simulator of the keyboard sends
MaxEvents == 2
\* most Push events the input simulator of the pelican crossing sends
MaxPush == 2
\* iterations of the driver of the pelican crossing before Exit is sent
MaxDrive == 16
\* most events of a list the pelican crossing is evaluated on
MaxCross == 6
\* the elements the input streams are made of
Vals == {-1, 0, 1}

\* register of a hand-written processor before it has read anything
InitReg == 7
\* what a hand-written processor adds to its register after each Put
PutStep == 10

(***************************************************************************)
(* The output alphabet of the pelican crossing of examples/pelican.rs.     *)
(***************************************************************************)
LENGTH_VEHICLES_GREEN_MIN == 10000
LENGTH_VEHICLES_YELLOW == 1000
LENGTH_PEDESTRIANS_GREEN == 10000
LENGTH_BOTH_RED == 2000

SetVehicleLights(color) == [cap |-> "SetVehicleLights", color |-> color]
SetPedestrianLights(color) == [cap |-> "SetPedestrianLights", color |-> color]
EmitTimeoutAfter(length) == [cap |-> "EmitTimeoutAfter", length |-> length]
UnexpectedTimeout(message) == [cap |-> "UnexpectedTimeout", message |-> message]
CallForHelp == [cap |-> "CallForHelp"]
Break == [cap |-> "Break"]

(***************************************************************************)
(* The closures handed to the combinators by tests and examples.           *)
(***************************************************************************)
ApplyPrim(f, a) ==
    CASE f = "id" -> a
      [] f = "plus_one" -> a + 1
      [] f = "plus_two" -> a + 2
      [] f = "double" -> 2 * a
      [] f = "is_zero" -> (a = 0)
      [] f = "CallForHelp" -> CallForHelp
      [] f = "Break" -> Break

\* a function is a sequence of primitive closures, applied left to right
RECURSIVE ApplyFn(_, _)
ApplyFn(fs, a) ==
    IF fs = <<>> THEN a ELSE ApplyFn(Tail(fs), ApplyPrim(Head(fs), a))

ApplyPred(p, a) ==
    CASE p = "is_greater_zero" -> a > 0
      [] p = "is_less_zero" -> a < 0
      [] p = "is_even" -> a % 2 = 0
      [] p = "never" -> FALSE

(***************************************************************************)
(* StreamProcessor: Get(closure) | Put(b, thunk).  Diverge stands for a    *)
(* construction that does not return (unbounded recursion of compose),     *)
(* Fail for one that panics.                                               *)
(***************************************************************************)
Get(k) == [tag |-> "Get", k |-> k]
Put(b, lz) == [tag |-> "Put", b |-> b, lz |-> lz]
Diverge == [tag |-> "Diverge"]
Fail == [tag |-> "Fail"]
IsProc(sp) == sp.tag \in {"Get", "Put"}

NextIdx(prog, i) == IF i = Len(prog) THEN 1 ELSE i + 1

\* a processor written by hand with get and put: a cyclic program of "G"
\* (read an element into the register) and "P" (write the register)
script(prog, i, reg) ==
    IF prog[i] = "G"
    THEN Get([c |-> "script", prog |-> prog, i |-> i])
    ELSE Put(reg, [c |-> "script", prog |-> prog, i |-> i, reg |-> reg])

map(f) == Get([c |-> "map", mapf |-> f])

filter(p) == Get([c |-> "filter", p |-> p])

RECURSIVE apply(_, _)
RECURSIVE force(_)
RECURSIVE composeN(_, _, _)
RECURSIVE composeCalls(_, _, _)
RECURSIVE alternate(_, _)
RECURSIVE bind(_, _)
RECURSIVE family(_, _)
RECURSIVE Build(_)
RECURSIVE state(_)
RECURSIVE mealy(_, _)

\* a variant of composeGetPut that feeds b to sp2 but keeps sp1 as it is
composeGetPutKeep(sp1, sp2, n) ==
    IF n = 0 THEN Diverge
    ELSE composeN(sp1, apply(sp2.k, sp1.b), n - 1)

\* compose(Put(b, lazy_sp1), Get(f)) = compose(lazy_sp1(), f(b))
composeGetPut(sp1, sp2, n) ==
    IF n = 0 THEN Diverge
    ELSE composeN(force(sp1.lz), apply(sp2.k, sp1.b), n - 1)

\* a variant of composeN that writes what sp2 has ready before sp1 reads
composeNEager(sp1, sp2, n) ==
    IF ~IsProc(sp1) THEN sp1
    ELSE IF ~IsProc(sp2) THEN sp2
    ELSE IF sp1.tag = "Get" /\ sp2.tag = "Get"
    THEN Get([c |-> "compose", f1 |-> sp1.k, sp2 |-> sp2])
    ELSE IF sp1.tag = "Get"
    THEN Put(sp2.b, sp2.lz)
    ELSE IF sp2.tag = "Get"
    THEN composeGetPut(sp1, sp2, n)
    ELSE Put(sp2.b, [c |-> "compose", b1 |-> sp1.b, lz1 |-> sp1.lz,
                     lz2 |-> sp2.lz])

composeN(sp1, sp2, n) ==
    IF ~IsProc(sp1) THEN sp1
    ELSE IF ~IsProc(sp2) THEN sp2
    ELSE IF sp1.tag = "Get"
    THEN Get([c |-> "compose", f1 |-> sp1.k, sp2 |-> sp2])
    ELSE IF sp2.tag = "Get"
    THEN composeGetPut(sp1, sp2, n)
    ELSE Put(sp2.b, [c |-> "compose", b1 |-> sp1.b, lz1 |-> sp1.lz,
                     lz2 |-> sp2.lz])

compose(sp1, sp2) == composeN(sp1, sp2, MaxLoop)

\* the activations of compose that are on the stack when the innermost
\* call made for compose(sp1, sp2) returns: the call in the arm for a Put
\* and a Get is made by the activation that waits for its result
composeCalls(sp1, sp2, n) ==
    IF n = 0 \/ ~IsProc(sp1) \/ ~IsProc(sp2) THEN 1
    ELSE IF sp1.tag = "Put" /\ sp2.tag = "Get"
    THEN 1 + composeCalls(force(sp1.lz), apply(sp2.k, sp1.b), n - 1)
    ELSE 1

\* a variant of alternate in which sp1 stays in control when it writes
alternateNoSwap(sp1, sp2) ==
    IF ~IsProc(sp1) THEN sp1
    ELSE IF ~IsProc(sp2) THEN sp2
    ELSE IF sp1.tag = "Get"
    THEN Get([c |-> "alternate", f1 |-> sp1.k, sp2 |-> sp2])
    ELSE Put(sp1.b, sp1.lz)

alternate(sp1, sp2) ==
    IF ~IsProc(sp1) THEN sp1
    ELSE IF ~IsProc(sp2) THEN sp2
    ELSE IF sp1.tag = "Get"
    THEN Get([c |-> "alternate", f1 |-> sp1.k, sp2 |-> sp2])
    ELSE Put(sp1.b, [c |-> "alternate", sp2 |-> sp2, lz1 |-> sp1.lz])

\* a variant of bind that passes over the first Put of sp
bindSkip(sp, fam) ==
    IF ~IsProc(sp) THEN sp
    ELSE IF sp.tag = "Get"
    THEN Get([c |-> "bind", g |-> sp.k, fam |-> fam])
    ELSE bind(force(sp.lz), fam)

\* a variant of bind that forces the continuation of the Put of sp
bindForce(sp, fam) ==
    IF ~IsProc(sp) THEN sp
    ELSE IF sp.tag = "Get"
    THEN Get([c |-> "bind", g |-> sp.k, fam |-> fam])
    ELSE IF force(sp.lz).tag = "Fail" THEN Fail
    ELSE family(fam, sp.b)

bind(sp, fam) ==
    IF ~IsProc(sp) THEN sp
    ELSE IF sp.tag = "Get"
    THEN Get([c |-> "bind", g |-> sp.k, fam |-> fam])
    ELSE family(fam, sp.b)

\* the closure `|b| if b { .. } else { .. }` handed to bind
family(fam, b) == IF b THEN Build(fam.then) ELSE Build(fam.else)

\* a variant of mapGet that writes the element itself
mapGetUnmapped(f, a) == Put(a, [c |-> "map", mapf |-> f])

\* |a| Put(f(a), || map(f))
mapGet(f, a) == Put(ApplyFn(f, a), [c |-> "map", mapf |-> f])

\* a variant of filterGet that writes every element
filterGetAll(p, a) == Put(a, [c |-> "filter", p |-> p])

\* |a| if p(&a) { Put(a, || filter(p)) } else { filter(p) }
filterGet(p, a) ==
    IF ApplyPred(p, a) THEN Put(a, [c |-> "filter", p |-> p]) ELSE filter(p)

\* a continuation that panics instead of returning a processor
Never == [c |-> "never"]

(***************************************************************************)
(* The keyboard of tests/events.rs: a state machine with the states        *)
(* default and shifted.                                                    *)
(***************************************************************************)
ShiftDepressed == [ev |-> "ShiftDepressed"]
ShiftReleased == [ev |-> "ShiftReleased"]
Key(c) == [ev |-> "Key", c |-> c]

\* if c == 0 { false } else { println!(..); true }
key_action(sign, c) == c # 0

\* StreamProcessor::get(transition) in default() and in shifted()
default == Get([c |-> "transition", state |-> "default"])
shifted == Get([c |-> "transition", state |-> "shifted"])

\* the thunks the transitions pass to put
Default == [c |-> "state", state |-> "default"]
Shifted == [c |-> "state", state |-> "shifted"]

\* transition of default()
defaultTransition(event) ==
    CASE event.ev = "ShiftDepressed" -> Put(TRUE, Shifted)
      [] event.ev = "ShiftReleased" -> default
      [] event.ev = "Key" -> Put(key_action("+", event.c), Default)

\* a variant of shiftedTransition that stays shifted when shift is released
shiftedTransitionStuck(event) ==
    CASE event.ev = "ShiftDepressed" -> shifted
      [] event.ev = "ShiftReleased" -> Put(TRUE, Shifted)
      [] event.ev = "Key" -> Put(key_action("-", event.c), Shifted)

\* transition of shifted()
shiftedTransition(event) ==
    CASE event.ev = "ShiftDepressed" -> shifted
      [] event.ev = "ShiftReleased" -> Put(TRUE, Default)
      [] event.ev = "Key" -> Put(key_action("-", event.c), Shifted)

\* |b| put(if b { panic!() } else { b }, || map(id)), with p for the test
fragileGet(p, a) ==
    IF ApplyPred(p, a) THEN Fail ELSE Put(a, [c |-> "map", mapf |-> <<"id">>])

(***************************************************************************)
(* The pelican crossing of examples/pelican.rs.  A state is entered by     *)
(* the function of its name, which writes its capabilities and then waits  *)
(* for an event with the push, timeout and exit that are lexically closest.*)
(***************************************************************************)
\* where a mealy! goes on: a state to enter, a state to wait in, or a map
Enter(st) == [t |-> "enter", st |-> st]
Wait(st) == [t |-> "wait", st |-> st]
MapTo(f) == [t |-> "map", f |-> f]

\* case_capture_transition!() with the functions in scope in state st
case_capture_transition(st) == Get([c |-> "case_capture_transition", st |-> st])

\* mealy!(outputs.., transition): the puts in a row, then the transition
mealy(outputs, then) ==
    IF outputs # <<>>
    THEN Put(Head(outputs),
             [c |-> "mealy", outputs |-> Tail(outputs), then |-> then])
    ELSE CASE then.t = "enter" -> state(then.st)
           [] then.t = "wait" -> case_capture_transition(then.st)
           [] then.t = "map" -> map(<<then.f>>)

\* the state functions on, operational, vehicles, .. , error, off
state(st) ==
    CASE st = "on" ->
            mealy(<<SetPedestrianLights("Red"), SetVehicleLights("Red")>>,
                  Enter("operational"))
      [] st = "operational" -> state("vehicles")
      [] st = "vehicles" ->
            mealy(<<SetPedestrianLights("Red"),
                    EmitTimeoutAfter(LENGTH_BOTH_RED)>>,
                  Enter("vehicles_green_guard"))
      [] st = "vehicles_green_guard" ->
            case_capture_transition("vehicles_green_guard")
      [] st = "vehicles_green" ->
            mealy(<<SetVehicleLights("Green"),
                    EmitTimeoutAfter(LENGTH_VEHICLES_GREEN_MIN)>>,
                  Wait("vehicles_green"))
      [] st = "vehicles_green_pushed" ->
            case_capture_transition("vehicles_green_pushed")
      [] st = "vehicles_green_timedout" ->
            case_capture_transition("vehicles_green_timedout")
      [] st = "vehicles_yellow" ->
            mealy(<<SetVehicleLights("Yellow"),
                    EmitTimeoutAfter(LENGTH_VEHICLES_YELLOW)>>,
                  Wait("vehicles_yellow"))
      [] st = "pedestrians" ->
            mealy(<<SetVehicleLights("Red"),
                    EmitTimeoutAfter(LENGTH_BOTH_RED)>>,
                  Enter("pedestrians_green_guard"))
      [] st = "pedestrians_green_guard" ->
            case_capture_transition("pedestrians_green_guard")
      [] st = "pedestrians_green" ->
            mealy(<<SetPedestrianLights("Green"),
                    EmitTimeoutAfter(LENGTH_PEDESTRIANS_GREEN)>>,
                  Wait("pedestrians_green"))
      [] st = "error" ->
            mealy(<<SetPedestrianLights("Red"), SetVehicleLights("Red"),
                    CallForHelp>>,
                  MapTo("CallForHelp"))
      [] st = "off" ->
            mealy(<<SetPedestrianLights("Black"), SetVehicleLights("Black"),
                    Break>>,
                  MapTo("Break"))

\* ignore!() in the push of state st
ignore(st) == case_capture_transition(st)

\* push() as seen from state st
push(st) ==
    CASE st = "vehicles_green" -> state("vehicles_green_pushed")
      [] st = "vehicles_green_timedout" -> state("vehicles_yellow")
      [] OTHER -> ignore(st)

\* a variant of timeout that lets the pedestrians go when the vehicles
\* see yellow
timeoutHasty(st) ==
    CASE st = "vehicles_green_guard" -> state("vehicles_green")
      [] st = "vehicles_green" -> state("vehicles_green_timedout")
      [] st = "vehicles_green_pushed" -> state("vehicles_yellow")
      [] st = "vehicles_green_timedout" ->
            mealy(<<UnexpectedTimeout("state: vehicles_green_timedout")>>,
                  Enter("error"))
      [] st = "vehicles_yellow" -> state("pedestrians_green")
      [] st = "pedestrians_green_guard" -> state("pedestrians_green")
      [] st = "pedestrians_green" -> state("vehicles")

\* timeout() as seen from state st
timeout(st) ==
    CASE st = "vehicles_green_guard" -> state("vehicles_green")
      [] st = "vehicles_green" -> state("vehicles_green_timedout")
      [] st = "vehicles_green_pushed" -> state("vehicles_yellow")
      [] st = "vehicles_green_timedout" ->
            mealy(<<UnexpectedTimeout("state: vehicles_green_timedout")>>,
                  Enter("error"))
      [] st = "vehicles_yellow" -> state("pedestrians")
      [] st = "pedestrians_green_guard" -> state("pedestrians_green")
      [] st = "pedestrians_green" -> state("vehicles")

\* a variant of exit that goes on as if nothing had happened
exitIgnored(st) == ignore(st)

\* exit() of operational, seen from all of its substates
exit(st) == state("off")

\* |event| match event { Push => push(), Timeout => timeout(), Exit => exit() }
transition(st, event) ==
    CASE event = "Push" -> push(st)
      [] event = "Timeout" -> timeout(st)
      [] event = "Exit" -> exit(st)

\* the body of the closure of a Get, run on the element a
apply(k, a) ==
    CASE k.c = "map" -> mapGet(k.mapf, a)
      [] k.c = "filter" -> filterGet(k.p, a)
      [] k.c = "compose" -> compose(apply(k.f1, a), k.sp2)
      [] k.c = "alternate" -> alternate(apply(k.f1, a), k.sp2)
      [] k.c = "bind" -> bind(apply(k.g, a), k.fam)
      [] k.c = "script" -> script(k.prog, NextIdx(k.prog, k.i), a)
      [] k.c = "once" -> Put(ApplyFn(k.f, a), Never)
      [] k.c = "fragile" -> fragileGet(k.p, a)
      [] k.c = "case_capture_transition" -> transition(k.st, a)
      [] k.c = "transition" ->
            IF k.state = "default" THEN defaultTransition(a)
            ELSE shiftedTransition(a)

\* a variant of alternateLazy that leaves sp1 in control
alternateLazyKeep(sp2, lz1) == alternate(force(lz1), sp2)

\* || alternate(sp2, lazy_sp())
alternateLazy(sp2, lz1) == alternate(sp2, force(lz1))

\* a variant of composeLazy that drops the value sp1 has written
composeLazyDrop(b1, lz1, lz2) == compose(force(lz1), force(lz2))

\* || compose(Put(b, lazy_sp1), lazy_sp2())
composeLazy(b1, lz1, lz2) == compose(Put(b1, lz1), force(lz2))

\* the body of the thunk of a Put
force(lz) ==
    CASE lz.c = "map" -> map(lz.mapf)
      [] lz.c = "filter" -> filter(lz.p)
      [] lz.c = "compose" -> composeLazy(lz.b1, lz.lz1, lz.lz2)
      [] lz.c = "alternate" -> alternateLazy(lz.sp2, lz.lz1)
      [] lz.c = "script" ->
            script(lz.prog, NextIdx(lz.prog, lz.i), lz.reg + PutStep)
      [] lz.c = "never" -> Fail
      [] lz.c = "mealy" -> mealy(lz.outputs, lz.then)
      [] lz.c = "state" -> IF lz.state = "default" THEN default ELSE shifted

\* the processor a client expression denotes
Build(t) ==
    CASE t.op = "map" -> map(t.f)
      [] t.op = "filter" -> filter(t.p)
      [] t.op = "script" -> script(t.prog, 1, InitReg)
      [] t.op = "compose" -> compose(Build(t.l), Build(t.r))
      [] t.op = "alternate" -> alternate(Build(t.l), Build(t.r))
      [] t.op = "bind" -> bind(Build(t.l), t.fam)
      [] t.op = "once" -> Get([c |-> "once", f |-> t.f])
      [] t.op = "now" -> Put(t.b, Never)
      [] t.op = "fragile" -> Get([c |-> "fragile", p |-> t.p])
      [] t.op = "keyboard" -> default
      [] t.op = "pelican" -> state("on")

(***************************************************************************)
(* Streams.  An InfiniteList is Cons(x, thunk); the thunk is the suspended *)
(* rest of a constant list, of an explicit list, or of an evaluation.      *)
(* Hang stands for a call that never returns.                              *)
(***************************************************************************)
Cons(x, lz) == [kind |-> "Cons", x |-> x, lz |-> lz]
Hang == [kind |-> "Hang"]

constant(x) == Cons(x, [t |-> "constant", x |-> x])

\* cons(pre[1], || cons(pre[2], .. || constant(c)))
ListOf(pre, c) ==
    IF pre = <<>> THEN constant(c)
    ELSE Cons(Head(pre), [t |-> "list", pre |-> Tail(pre), c |-> c])

head(s) == s.x

\* a variant of lazyTail that leaves out the element the rest starts with
lazyTailSkipping(lz) ==
    IF lz.t = "constant" THEN constant(lz.x)
    ELSE IF lz.pre = <<>> THEN constant(lz.c)
    ELSE ListOf(Tail(lz.pre), lz.c)

\* tail() of a list: the stream its suspended rest produces
lazyTail(lz) ==
    IF lz.t = "constant" THEN constant(lz.x) ELSE ListOf(lz.pre, lz.c)

\* OvereagerReceiver { message, receiver }: x is the buffered message, q
\* the messages in the channel, alive the number of sending handles
Receiver(x, q, alive) == [kind |-> "Recv", x |-> x, q |-> q, alive |-> alive]

\* what a call yields when it does not return a stream: Hang (it runs
\* forever), Block (recv waits in stream s, the Get sp waits for the
\* element) or Panic (recv failed)
\* a variant of Block in which recv returns with nothing received
Stale(s) == s

Block(s) == [kind |-> "Block", s |-> s, sp |-> Diverge]

\* a variant of Panic in which the failed recv goes on waiting
PanicWaits == [kind |-> "Hang"]

Panic == [kind |-> "Panic"]
IsStream(s) == s.kind \in {"Cons", "Recv"}
Waiting(outcome, sp) ==
    IF outcome.kind = "Block" THEN [outcome EXCEPT !.sp = sp] ELSE outcome

\* a variant of recv that takes the newest message
recvNewest(s) ==
    IF s.q # <<>>
    THEN [s EXCEPT !.x = s.q[Len(s.q)], !.q = SubSeq(s.q, 1, Len(s.q) - 1)]
    ELSE IF s.alive > 0 THEN Block(s) ELSE Panic

\* self.message = self.receiver.recv().unwrap(): the oldest message, or
\* wait for one while a sender is alive, or fail when none is
recv(s) ==
    IF s.q # <<>>
    THEN [s EXCEPT !.x = Head(s.q), !.q = Tail(s.q)]
    ELSE IF s.alive > 0 THEN Block(s) ELSE Panic

\* events of the evaluator, in the order it performs them
EvApply(sp) == "apply" \o sp.tag
EvForce(sp) == "force" \o sp.tag

RECURSIVE tailRun(_)
RECURSIVE printRun(_, _)
RECURSIVE printTail(_, _)
RECURSIVE evalRun(_, _)
RECURSIVE getLoop(_, _, _, _)

tail(s) == tailRun(s).out

\* a variant of Raised in which the evaluator keeps the panic to itself
Swallowed(sp) == Hang

\* what the evaluator yields when a closure has returned no processor:
\* the panic of the closure, or nothing ever
Raised(sp) == IF sp.tag = "Fail" THEN Panic ELSE Hang

\* the loop stopped without reaching a Put
Stopped(sp, outcome, log) ==
    [sp |-> sp, stream |-> Waiting(outcome, sp), log |-> log,
     reads |-> <<>>, frames |-> 1]

\* the loop reached the Put sp
Reached(sp, stream, log) ==
    [sp |-> sp, stream |-> stream, log |-> log, reads |-> <<>>, frames |-> 1]

\* the run r, begun by handing the element a to a Get closure
Delivered(a, r) == [r EXCEPT !.reads = <<a>> \o @]

\* a variant of frameOfLoop in which each Get is a recursive call of eval
frameOfRecursion(frames) == frames + 1

\* the activations of eval on the stack when the loop has gone round once
\* more: the loop stays in the activation it runs in
frameOfLoop(frames) == frames

\* the run r, made in one more round of the loop
Looped(r) == [r EXCEPT !.frames = frameOfLoop(@)]

\* self = f(stream.head().clone()), and round the loop again
\* a variant of getNext that leaves the loop after one more element
getNextOnce(sp1, st, log, n) ==
    Looped(getLoop(sp1, st, log \o <<"tail", "head", EvApply(sp1)>>, 0))

\* the rest of the loop once the closure has returned sp1 for the head of st
getNext(sp1, st, log, n) ==
    Looped(getLoop(sp1, st, log \o <<"tail", "head", EvApply(sp1)>>, n - 1))

\* the body of the loop once stream.tail() has yielded st
getStep(sp, st, log, n) ==
    IF ~IsStream(st) THEN Stopped(sp, st, Append(log, "tail"))
    ELSE Delivered(head(st), getNext(apply(sp.k, head(st)), st, log, n))

\* a variant of getLoop that applies the closure without advancing
getLoopStay(sp, stream, log, n) ==
    IF ~IsProc(sp) THEN Stopped(sp, Raised(sp), log)
    ELSE IF sp.tag = "Put" THEN Reached(sp, stream, log)
    ELSE IF n = 0 THEN Stopped(sp, Hang, log)
    ELSE getStep(sp, stream, log, n)

\* the while loop of eval: as long as the processor is a Get, advance the
\* input and apply the closure to the new head
getLoop(sp, stream, log, n) ==
    IF ~IsProc(sp) THEN Stopped(sp, Raised(sp), log)
    ELSE IF sp.tag = "Put" THEN Reached(sp, stream, log)
    ELSE IF n = 0 THEN Stopped(sp, Hang, log)
    ELSE getStep(sp, tail(stream), log, n)

\* the loop, entered with the processor sp1 the first closure returned
getFirst(sp1, stream) ==
    getLoop(sp1, stream, <<"head", EvApply(sp1)>>, MaxLoop)

\* the Get arm of eval: apply the closure to the head, then loop
\* a variant of evalGet that advances the input before it reads
evalGetSkipping(sp, stream) ==
    IF ~IsStream(tail(stream))
    THEN Stopped(sp, tail(stream), <<"tail">>)
    ELSE Delivered(head(tail(stream)),
                   getFirst(apply(sp.k, head(tail(stream))), tail(stream)))

evalGet(sp, stream) ==
    Delivered(head(stream), getFirst(apply(sp.k, head(stream)), stream))

\* a variant of evalPut that forces the continuation before returning
evalPutEager(sp, stream, log) ==
    [out |-> Cons(sp.b, [t |-> "eval", lazy_sp |-> sp.lz, stream |-> stream]),
     log |-> Append(log, EvForce(force(sp.lz)))]

\* the Put arm of eval: return the value, suspend the rest
evalPut(sp, stream, log) ==
    [out |-> Cons(sp.b, [t |-> "eval", lazy_sp |-> sp.lz, stream |-> stream]),
     log |-> log]

\* what one call did: the stream or outcome it yields, the operations it
\* performed, the elements it handed to Get closures and the activations
\* of eval it had on the stack
Ran(out, log, reads, frames) ==
    [out |-> out, log |-> log, reads |-> reads, frames |-> frames]

\* eval returns the Cons e after the reads of its loop
Returned(e, reads, frames) == Ran(e.out, e.log, reads, frames)

\* the Put arm, entered from the loop that did r
evalAfter(r) ==
    IF ~IsStream(r.stream) THEN Ran(r.stream, r.log, r.reads, r.frames)
    ELSE Returned(evalPut(r.sp, r.stream, r.log), r.reads, r.frames)

evalRun(sp, stream) ==
    IF ~IsProc(sp) THEN Ran(Raised(sp), <<>>, <<>>, 1)
    ELSE IF ~IsStream(stream) THEN Ran(Waiting(stream, sp), <<>>, <<>>, 1)
    ELSE IF sp.tag = "Put" THEN evalAfter(Reached(sp, stream, <<>>))
    ELSE evalAfter(evalGet(sp, stream))

eval(sp, stream) == evalRun(sp, stream).out

\* a variant of advanceIfGet that advances whatever the next step is
advanceAlways(sp, stream) == [stream |-> tail(stream), log |-> <<"tail">>]

\* the input is advanced after forcing only if the next step is a Get
advanceIfGet(sp, stream) ==
    IF sp.tag = "Get"
    THEN [stream |-> tail(stream), log |-> <<"tail">>]
    ELSE [stream |-> stream, log |-> <<>>]

\* the thunk has forced sp and done r
Forced(sp, log, r) ==
    Ran(r.out, <<EvForce(sp)>> \o log \o r.log, r.reads, r.frames)

\* Self::eval(sp, stream), the stream advanced as a says
evalAdvanced(sp, a) == Forced(sp, a.log, evalRun(sp, a.stream))

\* the thunk of eval once lazy_sp() has yielded sp
evalForced(sp, stream) ==
    IF ~IsProc(sp) THEN Ran(Raised(sp), <<>>, <<>>, 0)
    ELSE evalAdvanced(sp, advanceIfGet(sp, stream))

\* the thunk eval puts into the Cons it returns
evalThunk(lz) == evalForced(force(lz.lazy_sp), lz.stream)

\* println!("{}", stream.head()) has shown h before the run r
printed(h, r) == [r EXCEPT !.shown = <<h>> \o @, !.log = <<"head">> \o @]

\* stream = stream.tail() has yielded t before the run r
printNext(t, r) == [r EXCEPT !.heads = <<head(t)>> \o @, !.log = <<"tail">> \o @]

\* the loop from the point where stream.tail() yields t, with n
\* iterations left including the one of this tail
printTail(t, n) ==
    IF ~IsStream(t)
    THEN [out |-> t, left |-> n, shown |-> <<>>, heads |-> <<>>, log |-> <<>>]
    ELSE printNext(t, printRun(t, n - 1))

\* a variant of printRun that shows the head without advancing
printRunStaying(s, n) ==
    IF n = 0
    THEN [out |-> s, left |-> 0, shown |-> <<>>, heads |-> <<>>, log |-> <<>>]
    ELSE printed(head(s), printRun(s, n - 1))

\* for _ in 0..n { println!("{}", stream.head()); stream = stream.tail(); }
\* stream
printRun(s, n) ==
    IF n = 0
    THEN [out |-> s, left |-> 0, shown |-> <<>>, heads |-> <<>>, log |-> <<>>]
    ELSE printed(head(s), printTail(tail(s), n))

\* a variant of headRun that moves on to the next element
headAdvancing(s) == [x |-> head(s), s |-> tail(s)]

\* head(&self): the element, and the stream as the call leaves it
headRun(s) == [x |-> head(s), s |-> s]

tailRun(s) ==
    CASE s.kind = "Recv" -> Ran(recv(s), <<>>, <<>>, 0)
      [] s.kind = "Cons" /\ s.lz.t \in {"constant", "list"} ->
            Ran(lazyTail(s.lz), <<"forceRest">>, <<>>, 0)
      [] s.kind = "Cons" /\ s.lz.t = "eval" -> evalThunk(s.lz)

(***************************************************************************)
(* The heap-free stream processors of examples/rspl_heapless.rs: the       *)
(* closure of a Get and the suspended rest of a Put are values of a type   *)
(* that implements Fun and LazySP, here ComatchMap.                        *)
(***************************************************************************)
ComatchMap(function) == [comatch |-> "Map", function |-> function]

\* Fun::apply of ComatchMap
heaplessApply(self, a) == Put(ApplyFn(self.function, a), self)

\* map(f) of the example
heaplessMap(f) == Get(ComatchMap(f))

\* LazySP::force of ComatchMap
heaplessForce(self) == heaplessMap(self.function)

ComatchEval(stream, output, lazy_sp) ==
    [kind |-> "ComatchEval", stream |-> stream, output |-> output,
     lazy_sp |-> lazy_sp]

\* the evaluator holds the processor sp and the input stream, after the
\* operations of log and having handed reads to closures
Held(sp, stream, log, reads) ==
    [sp |-> sp, stream |-> stream, log |-> log, reads |-> reads]

RECURSIVE heaplessWhile(_)
\* while let Get(f, _) = self { stream = stream.tail(); self = f.apply(..) }
heaplessWhile(h) ==
    IF h.sp.tag # "Get" THEN h
    ELSE heaplessWhile(
            Held(heaplessApply(h.sp.k, head(tail(h.stream))),
                 tail(h.stream),
                 h.log \o <<"tail", "head",
                            EvApply(heaplessApply(h.sp.k,
                                                  head(tail(h.stream))))>>,
                 Append(h.reads, head(tail(h.stream)))))

\* the Get arm of the match of eval
heaplessGet(sp, stream) ==
    heaplessWhile(
        Held(heaplessApply(sp.k, head(stream)), stream,
             <<"head", EvApply(heaplessApply(sp.k, head(stream)))>>,
             <<head(stream)>>))

\* the Put arm of the match of eval
heaplessPut(h) ==
    [out |-> ComatchEval(h.stream, h.sp.b, h.sp.lz),
     log |-> h.log, reads |-> h.reads]

\* StreamProcessor::eval of the example
heaplessEval(sp, stream) ==
    IF sp.tag = "Get" THEN heaplessPut(heaplessGet(sp, stream))
    ELSE heaplessPut(Held(sp, stream, <<>>, <<>>))

\* a variant of heaplessAdvance that leaves the input where it is
heaplessAdvanceNever(sp, stream) == [stream |-> stream, log |-> <<>>]

\* if let Get(_, _) = sp { self.stream = self.stream.tail(); }
heaplessAdvance(sp, stream) ==
    IF sp.tag = "Get"
    THEN [stream |-> tail(stream), log |-> <<"tail">>]
    ELSE [stream |-> stream, log |-> <<>>]

\* eval(sp, stream) in tail, the stream advanced as a says
heaplessForced(sp, a) ==
    [heaplessEval(sp, a.stream)
        EXCEPT !.log = <<EvForce(sp)>> \o a.log \o @]

\* ComatchEval::head
heaplessHead(self) == self.output

\* ComatchEval::tail
heaplessTail(self) ==
    heaplessForced(heaplessForce(self.lazy_sp),
                   heaplessAdvance(heaplessForce(self.lazy_sp), self.stream))

(***************************************************************************)
(* The client: builds a processor, evaluates it on an input stream and     *)
(* observes the output stream with head and tail.                          *)
(***************************************************************************)
VARIABLES term, input, pc, result, out, log, last, nForce, nAdv,
          frames, delivered, nTail, chan, prod, sent, peek, prt, heapless

vars ==
    <<term, input, pc, result, out, log, last, nForce, nAdv,
      frames, delivered, nTail, chan, prod, sent, peek, prt, heapless>>

RECURSIVE CountIn(_, _)
CountIn(evs, e) ==
    IF evs = <<>> THEN 0
    ELSE (IF Head(evs) = e THEN 1 ELSE 0) + CountIn(Tail(evs), e)

Forces(evs) == CountIn(evs, "forceGet") + CountIn(evs, "forcePut")

RECURSIVE SeqsUpTo(_, _)
SeqsUpTo(S, n) ==
    IF n = 0 THEN {<<>>}
    ELSE LET R == SeqsUpTo(S, n - 1)
         IN  R \cup {Append(q, x) : q \in {r \in R : Len(r) = n - 1}, x \in S}

\* the programs of the hand-written processors
Progs ==
    {<<"G">>, <<"P">>, <<"G", "P">>, <<"P", "G">>, <<"G", "G", "P">>,
     <<"G", "P", "P">>}
Scripts == {[op |-> "script", prog |-> p] : p \in Progs}

Map(f) == [op |-> "map", f |-> f]
Filter(p) == [op |-> "filter", p |-> p]
Compose(l, r) == [op |-> "compose", l |-> l, r |-> r]
Alternate(l, r) == [op |-> "alternate", l |-> l, r |-> r]
Bind(l, fam) == [op |-> "bind", l |-> l, fam |-> fam]
\* get(|a| put(f(a), || panic!())) and put(b, || panic!())
Once(f) == [op |-> "once", f |-> f]
Now(b) == [op |-> "now", b |-> b]
\* get(|b| put(if b { panic!() } else { b }, || map(id)))
Fragile(p) == [op |-> "fragile", p |-> p]

Funs == {<<"id">>, <<"plus_one">>, <<"double">>}
Preds == {"is_greater_zero", "is_less_zero", "is_even", "never"}

\* bind(map(is_zero), |b| if b { map(plus_two) } else { filter(is_greater_zero) })
BindScenario ==
    Bind(Map(<<"is_zero">>),
         [then |-> Map(<<"plus_two">>), else |-> Filter("is_greater_zero")])

\* the processors bind is given: they write a truth value at once, after
\* one element, or after as many as it takes to find one greater than zero
BindOperands ==
    {Now(TRUE), Now(FALSE), Once(<<"is_zero">>), Map(<<"is_zero">>),
     Compose(Filter("is_greater_zero"), Map(<<"is_zero">>))}

\* the families bind is given; the first branch of the last one is the
\* inner bind of test_bind
Families ==
    {[then |-> Map(<<"plus_two">>), else |-> Filter("is_greater_zero")],
     [then |-> [op |-> "script", prog |-> <<"P", "G">>],
      else |-> Map(<<"id">>)],
     [then |-> Bind(Map(<<"is_zero">>),
                    [then |-> Map(<<"plus_two">>),
                     else |-> Map(<<"plus_one">>)]),
      else |-> Filter("is_greater_zero")]}

BindTerms == {Bind(l, fam) : l \in BindOperands, fam \in Families}

\* the lists 1, 2, 3, 3, .. and 1, 2, 3, 4, 5, 5, ..
Ascending == {ListOf(<<1, 2>>, 3), ListOf(<<1, 2, 3, 4>>, 5)}

Inputs ==
    {ListOf(pre, c) : pre \in SeqsUpTo(Vals, MaxLen), c \in Vals}
        \cup Ascending

Basics ==
    Scripts \cup {Map(<<"id">>), Map(<<"plus_one">>), Filter("is_greater_zero")}

Terms ==
    {Map(f) : f \in Funs} \cup {Filter(p) : p \in Preds} \cup Scripts
        \cup {Compose(Map(f), Map(g)) : f \in Funs, g \in Funs}
        \cup {Alternate(Filter(p1), Filter(p2)) : p1 \in Preds, p2 \in Preds}
        \cup {BindScenario} \cup BindTerms

ComposeTerms == {Compose(l, r) : l \in Basics, r \in Basics}

AssocOperands == Scripts \cup {Filter("is_greater_zero")}

AssocTerms ==
    {Compose(Compose(a, b), c) :
        a \in AssocOperands, b \in AssocOperands, c \in AssocOperands}

\* the first n elements of a stream, fewer if an advance does not return
RECURSIVE Prefix(_, _)
Prefix(s, n) ==
    IF n = 0 \/ ~IsStream(s) THEN <<>>
    ELSE <<head(s)>> \o Prefix(tail(s), n - 1)

\* the k-th element of a stream, counted from 1
RECURSIVE Nth(_, _)
Nth(s, k) == IF k = 1 THEN head(s) ELSE Nth(tail(s), k - 1)

\* the stream is seen to produce exactly the outputs observed so far
SameOutput(ref) ==
    /\ Prefix(ref, Len(out)) = out
    /\ pc \in {"hung", "panicked"} =>
          Len(Prefix(ref, Len(out) + 1)) = Len(out)

\* a variant of channel that makes a bounded channel whatever cap is
channelBounded(cap, message) ==
    [tx |-> [q |-> <<>>, flavor |-> "bounded", cap |-> cap],
     stream |-> Receiver(message, <<>>, 1)]

\* channel(cap, message): a bounded channel if cap > 0, an unbounded one
\* otherwise, and the receiver with message as its first element
channel(cap, message) ==
    [tx |-> [q |-> <<>>,
             flavor |-> IF cap > 0 THEN "bounded" ELSE "unbounded",
             cap |-> cap],
     stream |-> Receiver(message, <<>>, 1)]

\* a variant of Full that lets one message more into the channel
FullAbove(ch) == ch.flavor = "bounded" /\ Len(ch.q) > ch.cap

\* a bounded channel takes no message while cap messages are in it
Full(ch) == ch.flavor = "bounded" /\ Len(ch.q) >= ch.cap

\* a producer thread: the messages it has yet to send and whether it
\* still holds its sending handle
Producer(todo) == [todo |-> todo, alive |-> TRUE]
Alive == Cardinality({p \in DOMAIN prod : prod[p].alive})

\* the receiver, seeing the channel as it is now
Load(s) == IF s.kind = "Recv" THEN Receiver(s.x, chan.q, Alive) ELSE s
LoadResult(s) ==
    IF s.kind = "Cons" /\ s.lz.t = "eval"
    THEN [s EXCEPT !.lz.stream = Load(@)]
    ELSE Load(s)

\* the messages a call left in the channel
QueueAfter(o) ==
    CASE o.kind = "Recv" -> o.q
      [] o.kind = "Cons" /\ o.lz.t = "eval" /\ o.lz.stream.kind = "Recv" ->
            o.lz.stream.q
      [] o.kind = "Block" -> o.s.q
      [] o.kind = "Panic" -> <<>>
      [] OTHER -> chan.q

\* the heap-free evaluator has not been called
NoHeapless ==
    [pc |-> "start", stream |-> Hang, out |-> <<>>, log |-> <<>>,
     reads |-> <<>>, n |-> 0]

\* no call of print has been made
NoPrint == [n |-> 0, left |-> 0, shown |-> <<>>]

\* nothing has been evaluated or observed yet
Fresh ==
    /\ pc = "start"
    /\ result = Hang
    /\ out = <<>>
    /\ log = <<>>
    /\ last = "none"
    /\ nForce = 0
    /\ nAdv = 0
    /\ frames = 0
    /\ delivered = <<>>
    /\ nTail = 0
    /\ peek = <<>>
    /\ prt = NoPrint
    /\ heapless = NoHeapless

InitWith(T, I) ==
    /\ term \in T
    /\ input \in I
    /\ Fresh
    /\ chan = channel(0, 0).tx
    /\ prod = <<>>
    /\ sent = <<>>

Init == InitWith(Terms, Inputs)

\* the client's state after a call that did r
Settle(r) ==
    /\ result' = r.out
    /\ log' = r.log
    /\ pc' = CASE IsStream(r.out) -> "ready"
               [] r.out.kind = "Hang" -> "hung"
               [] r.out.kind = "Block" -> "blocked"
               [] r.out.kind = "Panic" -> "panicked"
    /\ out' = IF IsStream(r.out) THEN Append(out, head(r.out)) ELSE out
    /\ nForce' = nForce + Forces(r.log)
    /\ frames' = r.frames
    /\ delivered' = delivered \o r.reads
    /\ nTail' = nTail + CountIn(r.log, "tail")
    /\ chan' = [chan EXCEPT !.q = QueueAfter(r.out)]
    /\ peek' = <<>>
    /\ prt' = prt

\* let result = sp.eval(stream)
Eval ==
    /\ pc = "start"
    /\ term.op # "raw"
    /\ Settle(evalRun(Build(term), Load(input)))
    /\ last' = "eval"
    /\ UNCHANGED <<term, input, nAdv, prod, sent, heapless>>

\* the client's state after a call of head that did h
Peeked(h) ==
    /\ peek' = <<h.x>>
    /\ result' = h.s

\* result.head()
OutHead ==
    /\ pc = "ready"
    /\ last # "head"
    /\ Peeked(headRun(result))
    /\ last' = "head"
    /\ log' = <<>>
    /\ UNCHANGED <<term, input, pc, out, nForce, nAdv,
                   frames, delivered, nTail, chan, prod, sent, prt,
                   heapless>>

\* result = result.tail()
OutTail ==
    /\ pc = "ready"
    /\ nAdv < MaxAdv
    /\ Settle(tailRun(LoadResult(result)))
    /\ nAdv' = nAdv + 1
    /\ last' = "tail"
    /\ UNCHANGED <<term, input, prod, sent, heapless>>

Next == Eval \/ OutHead \/ OutTail

Spec == Init /\ [][Next]_vars

InitCompose == InitWith(ComposeTerms, Inputs)
SpecCompose == InitCompose /\ [][Next]_vars

InitAssoc == InitWith(AssocTerms, Inputs)
SpecAssoc == InitAssoc /\ [][Next]_vars

\* alternate(sp1, sp2) for processors that read and write in any order
AlternateTerms == {Alternate(l, r) : l \in Basics, r \in Basics}

InitAlternate == InitWith(AlternateTerms, Inputs)
SpecAlternate == InitAlternate /\ [][Next]_vars

(***************************************************************************)
(* The client of a channel: producer threads send on clones of the sender  *)
(* while the client evaluates a processor on the receiver, or uses the     *)
(* receiver as it is.                                                      *)
(***************************************************************************)
\* the client uses the stream itself
Raw == [op |-> "raw"]

\* processors with a closure or a continuation that panics
FailingTerms ==
    {Fragile("is_even"), Fragile("is_greater_zero"), Once(<<"id">>), Now(5)}

ChanTerms ==
    {Raw, Map(<<"plus_one">>), Filter("is_greater_zero"),
     Compose(Map(<<"plus_one">>), Map(<<"plus_one">>)),
     [op |-> "script", prog |-> <<"P">>],
     [op |-> "script", prog |-> <<"G", "P", "P">>]} \cup FailingTerms

Caps == 0..MaxCap

\* the first element of the stream, sent by nobody
Placeholder == 0

\* what each of two producers sends; the messages tell who sent them
TwoSenders == <<(<<1, 2>>), (<<3>>)>>

\* no producer that sends, one, or two
ProducerSets ==
    {<<Producer(<<>>)>>, <<Producer(<<1, 2>>)>>,
     <<Producer(TwoSenders[1]), Producer(TwoSenders[2])>>}

InitChanWith(T) ==
    /\ term \in T
    /\ Fresh
    /\ \E cap \in Caps :
          /\ input = channel(cap, Placeholder).stream
          /\ chan = channel(cap, Placeholder).tx
    /\ prod \in ProducerSets
    /\ sent = <<>>

InitChan == InitChanWith(ChanTerms)

\* let (tx, stream) = channel(cap, message), the stream used as it is
Open ==
    /\ pc = "start"
    /\ term.op = "raw"
    /\ Settle(Ran(Load(input), <<>>, <<>>, 0))
    /\ last' = "open"
    /\ UNCHANGED <<term, input, nAdv, prod, sent, heapless>>

\* a list is used as it is
InitList == InitWith({Raw}, Inputs)

NextList == Open \/ OutHead \/ OutTail

SpecList == InitList /\ [][NextList]_vars

\* the client's state after print, called with n, has run as r says
Shown(r, n) ==
    /\ result' = r.out
    /\ pc' = CASE IsStream(r.out) -> "ready"
               [] r.out.kind = "Block" -> "blocked"
               [] r.out.kind = "Panic" -> "panicked"
    /\ out' = out \o r.heads
    /\ log' = log \o r.log
    /\ nAdv' = nAdv + Len(r.heads)
    /\ chan' = [chan EXCEPT !.q = QueueAfter(r.out)]
    /\ prt' = [n |-> n, left |-> r.left, shown |-> prt.shown \o r.shown]
    /\ last' = "print"
    /\ UNCHANGED <<term, input, prod, sent, nForce, frames, delivered,
                   nTail, peek, heapless>>

\* let stream = print(stream, n), on the stream as it was made
PrintStream(n) ==
    /\ pc = "ready"
    /\ last = "open"
    /\ Shown(printRun(Load(result), n), n)

\* recv returns in the call of tail that print waits in
PrintResume ==
    /\ pc = "blocked"
    /\ prt.left > 0
    /\ chan.q # <<>> \/ Alive = 0
    /\ Shown(printTail(recv(Load(result.s)), prt.left), prt.n)

\* recv returns in the call that waited for it: with the oldest message,
\* or with an error once the channel is empty and disconnected
Resume ==
    /\ pc = "blocked"
    /\ chan.q # <<>> \/ Alive = 0
    /\ LET st == recv(Load(result.s))
       IN  Settle(IF result.sp.tag = "Diverge"
                  THEN Ran(st, <<>>, <<>>, 0)
                  ELSE evalRun(result.sp, st))
    /\ UNCHANGED <<term, input, nAdv, last, prod, sent, heapless>>

\* a variant of Send that puts the message before those in the channel
SendFirst(p) ==
    /\ prod[p].alive
    /\ prod[p].todo # <<>>
    /\ ~Full(chan)
    /\ chan' = [chan EXCEPT !.q = <<Head(prod[p].todo)>> \o @]
    /\ sent' = Append(sent, Head(prod[p].todo))
    /\ prod' = [prod EXCEPT ![p].todo = Tail(@)]
    /\ UNCHANGED <<term, input, pc, result, out, log, last, nForce, nAdv,
                   frames, delivered, nTail, peek, prt, heapless>>

\* tx.send(x).unwrap() in producer p
Send(p) ==
    /\ prod[p].alive
    /\ prod[p].todo # <<>>
    /\ ~Full(chan)
    /\ chan' = [chan EXCEPT !.q = Append(@, Head(prod[p].todo))]
    /\ sent' = Append(sent, Head(prod[p].todo))
    /\ prod' = [prod EXCEPT ![p].todo = Tail(@)]
    /\ UNCHANGED <<term, input, pc, result, out, log, last, nForce, nAdv,
                   frames, delivered, nTail, peek, prt, heapless>>

\* producer p ends and its sender is dropped
Drop(p) ==
    /\ prod[p].alive
    /\ prod[p].todo = <<>>
    /\ prod' = [prod EXCEPT ![p].alive = FALSE]
    /\ UNCHANGED <<term, input, pc, result, out, log, last, nForce, nAdv,
                   frames, delivered, nTail, chan, sent, peek, prt,
                   heapless>>

NextChan ==
    \/ Eval
    \/ Open
    \/ OutHead
    \/ OutTail
    \/ Resume
    \/ \E p \in DOMAIN prod : Send(p)
    \/ \E p \in DOMAIN prod : Drop(p)

SpecChan == InitChan /\ [][NextChan]_vars

\* the client evaluates on a list or on the receiver of a channel
StreamTerms == ChanTerms \cup Scripts

InitStreams == InitChanWith(StreamTerms) \/ InitWith(StreamTerms, Inputs)
SpecStreams == InitStreams /\ [][NextChan]_vars

\* the client prints a list or the receiver of a channel
InitPrint == InitChanWith({Raw}) \/ InitWith({Raw}, Inputs)

NextPrint ==
    \/ Open
    \/ \E n \in 0..MaxAdv : PrintStream(n)
    \/ PrintResume
    \/ \E p \in DOMAIN prod : Send(p)
    \/ \E p \in DOMAIN prod : Drop(p)

SpecPrint == InitPrint /\ [][NextPrint]_vars

\* initial.state of test_events
Keyboard == [op |-> "keyboard"]

Events == {ShiftDepressed, ShiftReleased, Key(0), Key(1)}

\* the capacity of the channel of events
EventCap == 100

\* the keyboard is evaluated on a channel of events while the input
\* simulator sends
InitEvents ==
    /\ term = Keyboard
    /\ Fresh
    /\ \E event \in Events :
          /\ input = channel(EventCap, event).stream
          /\ chan = channel(EventCap, event).tx
    /\ prod \in {<<Producer(events)>> : events \in SeqsUpTo(Events, MaxEvents)}
    /\ sent = <<>>

NextEvents ==
    \/ Eval
    \/ OutHead
    \/ OutTail
    \/ Resume
    \/ \E p \in DOMAIN prod : Send(p)
    \/ \E p \in DOMAIN prod : Drop(p)

SpecEvents == InitEvents /\ [][NextEvents]_vars

\* pelican_machine::on()
Pelican == [op |-> "pelican"]

PelicanEvents == {"Push", "Timeout", "Exit"}

\* the threads of main: the input simulator and the feedback loop
Simulator == 1
Feedback == 2

RECURSIVE Pushes(_)
Pushes(k) == IF k = 0 THEN <<>> ELSE <<"Push">> \o Pushes(k - 1)

\* the input simulator has sent Exit
ExitSent == \E i \in DOMAIN sent : sent[i] = "Exit"

\* a variant of relay in which the feedback loop sends two events
relayTwice(capability) ==
    IF capability.cap = "EmitTimeoutAfter" /\ Feedback \in DOMAIN prod
    THEN [prod EXCEPT ![Feedback].todo = @ \o <<"Timeout", "Timeout">>]
    ELSE prod

\* tfeedback.send(TimeoutAfter(length)): the feedback loop, if there is
\* one, has one more Timeout to send
relay(capability) ==
    IF capability.cap = "EmitTimeoutAfter" /\ Feedback \in DOMAIN prod
    THEN [prod EXCEPT ![Feedback].todo = Append(@, "Timeout")]
    ELSE prod

\* the arms of the match of driver that leave the loop
breaks(capability) == capability.cap \in {"CallForHelp", "Break"}

\* one round of the loop of driver: handle capabilities.head(), then
\* leave the loop or go on with capabilities.tail()
Drive ==
    /\ pc = "ready"
    /\ IF breaks(head(result))
       THEN /\ pc' = "done"
            /\ UNCHANGED <<result, out, log, nForce, nAdv, frames,
                           delivered, nTail, chan, prod, peek, prt>>
       ELSE /\ nAdv < MaxDrive \/ ExitSent
            /\ Settle(tailRun(LoadResult(result)))
            /\ nAdv' = nAdv + 1
            /\ prod' = relay(head(result))
    /\ last' = "drive"
    /\ UNCHANGED <<term, input, sent, heapless>>

\* the lists of events the machine is evaluated on
Crossings ==
    {ListOf(pre, c) : pre \in SeqsUpTo(PelicanEvents, MaxCross),
                      c \in PelicanEvents}

\* the driver runs the machine on a list of events
InitCrossing == InitWith({Pelican}, Crossings)
NextCrossing == Eval \/ Drive
SpecCrossing == InitCrossing /\ [][NextCrossing]_vars

\* main: the driver runs the machine on the channel of events, the
\* input simulator sends Push events and then Exit, and the feedback
\* loop sends a Timeout for each TimeoutAfter it receives
InitPelican ==
    /\ term = Pelican
    /\ Fresh
    /\ input = channel(0, "Push").stream
    /\ chan = channel(0, "Push").tx
    /\ \E k \in 0..MaxPush :
          prod = <<Producer(Pushes(k) \o <<"Exit">>), Producer(<<>>)>>
    /\ sent = <<>>

NextPelican ==
    \/ Eval
    \/ Drive
    \/ Resume
    \/ \E p \in DOMAIN prod : Send(p)
    \/ Drop(Simulator)

SpecPelican == InitPelican /\ [][NextPelican]_vars

\* the driver can go round its loop
DriveEnabled ==
    pc = "ready" /\ (breaks(head(result)) \/ nAdv < MaxDrive \/ ExitSent)

\* the recv the driver waits in can return
ResumeEnabled == pc = "blocked" /\ (chan.q # <<>> \/ Alive = 0)

\* the main thread runs when it can: weak fairness of Eval, Drive and
\* Resume, that of Drive and Resume written out with the conditions
\* under which they are enabled
SpecPelicanFair ==
    /\ SpecPelican
    /\ WF_vars(Eval)
    /\ []<>(~DriveEnabled) \/ []<><<Drive>>_vars
    /\ []<>(~ResumeEnabled) \/ []<><<Resume>>_vars

\* the heap-free evaluator after a call that did r
Kept(r) ==
    [pc |-> "ready", stream |-> r.out,
     out |-> Append(heapless.out, heaplessHead(r.out)),
     log |-> r.log, reads |-> heapless.reads \o r.reads,
     n |-> heapless.n]

\* let stream = map(f).eval(input) of the example
HeaplessEval ==
    /\ heapless.pc = "start"
    /\ heapless' = Kept(heaplessEval(heaplessMap(term.f), input))
    /\ UNCHANGED <<term, input, pc, result, out, log, last, nForce, nAdv,
                   frames, delivered, nTail, chan, prod, sent, peek, prt>>

\* stream = stream.tail() on the stream of the heap-free evaluator
HeaplessTail ==
    /\ heapless.pc = "ready"
    /\ heapless.n < MaxAdv
    /\ heapless' = [Kept(heaplessTail(heapless.stream)) EXCEPT !.n = @ + 1]
    /\ UNCHANGED <<term, input, pc, result, out, log, last, nForce, nAdv,
                   frames, delivered, nTail, chan, prod, sent, peek, prt>>

\* map(f) is evaluated on the same list by the evaluator of the crate
\* and by the heap-free evaluator of the example
InitHeapless == InitWith({Map(f) : f \in Funs}, Inputs)
NextHeapless == Eval \/ OutTail \/ HeaplessEval \/ HeaplessTail
SpecHeapless == InitHeapless /\ [][NextHeapless]_vars

\* a thread that can run does run: a producer that can send sends, and
\* a recv that can return returns
SpecChanFair ==
    /\ SpecChan
    /\ WF_vars(Resume)
    /\ \A p \in 1..Len(TwoSenders) : WF_vars(p \in DOMAIN prod /\ Send(p))

(***************************************************************************)
(* Properties of the evaluator.                                            *)
(***************************************************************************)
IsApply(e) == e \in {"applyGet", "applyPut", "applyDiverge"}

\* C1: during eval and every advance of its output, each advance of the
\* input is followed at once by reading the new head and applying a Get
\* closure to it, and it happens only after a step that produced a Get: no
\* advance follows a closure that returned a Put or a thunk that forced to
\* a Put.
InputAdvancedOnlyBeforeGet ==
    pc = "ready" =>
        \A i \in 1..Len(log) :
            /\ log[i] = "tail" =>
                  /\ i > 1 /\ log[i - 1] \in {"applyGet", "forceGet"}
                  /\ i + 2 <= Len(log)
                  /\ log[i + 1] = "head" /\ IsApply(log[i + 2])
            /\ log[i] \in {"applyPut", "forcePut"} => i = Len(log)

\* an output advance forced a thunk to a Get and advanced the input, after
\* an earlier one forced a thunk to a Put
InputAdvancedOnlyBeforeGetWitness ==
    /\ pc = "ready" /\ last = "tail" /\ nAdv >= 2
    /\ log = <<"forceGet", "tail", "head", "applyPut">>
    /\ term = [op |-> "script", prog |-> <<"G", "P", "P">>]

\* C2: the evaluator forces a thunk only in an advance of the output, one
\* per advance: eval itself forces nothing, peeking the output leaves the
\* input alone, and the thunks forced never outnumber the advances.
ForcedOnlyOnDemand ==
    /\ nForce <= nAdv
    /\ last = "eval" => Forces(log) = 0
    /\ last = "head" => log = <<>>
    /\ last = "tail" /\ pc = "ready" =>
          /\ Forces(log) = 1
          /\ log[1] \in {"forceGet", "forcePut"}

\* the consumer peeks after two advances, each of which forced one thunk
ForcedOnlyOnDemandWitness ==
    /\ pc = "ready" /\ last = "head" /\ nAdv = 2 /\ nForce = 2
    /\ Len(out) = 3

(***************************************************************************)
(* Properties of the combinators.                                          *)
(***************************************************************************)
\* how far into the input the outputs observed can depend on it
Horizon == MaxLen + MaxAdv + 4

\* C3: map(f) writes one element per element read, the k-th output being f
\* of the k-th input, the head of the input included; it never stalls.
MapIsPointwise ==
    term.op = "map" =>
        /\ pc # "hung"
        /\ pc = "ready" => Len(out) = nAdv + 1
        /\ \A k \in 1..Len(out) : out[k] = ApplyFn(term.f, Nth(input, k))

\* map(plus_one) on 1, 2, 3, .. has written 2, 3, 4
MapIsPointwiseWitness ==
    /\ term = Map(<<"plus_one">>)
    /\ input = ListOf(<<1, 2>>, 3)
    /\ out = <<2, 3, 4>>

\* the elements among the first Horizon of the input that satisfy p
Selected(p) ==
    LET Test(a) == ApplyPred(p, a)
    IN  SelectSeq(Prefix(input, Horizon), Test)

\* C4: the output of filter(p) is the subsequence of the input elements
\* that satisfy p, in input order, nothing omitted or repeated; the
\* evaluation stalls only when no later element satisfies p.
FilterIsSubsequence ==
    term.op = "filter" =>
        /\ Len(out) <= Len(Selected(term.p))
        /\ out = SubSeq(Selected(term.p), 1, Len(out))
        /\ pc = "ready" => Len(out) = nAdv + 1
        /\ pc = "hung" => out = Selected(term.p)

\* filter(is_greater_zero) on 1, -1, 1, 1, .. dropped the -1
FilterIsSubsequenceWitness ==
    /\ term = Filter("is_greater_zero")
    /\ input = ListOf(<<1, -1>>, 1)
    /\ out = <<1, 1, 1>>

IsComposeOfMaps ==
    term.op = "compose" /\ term.l.op = "map" /\ term.r.op = "map"

\* C5: compose(map(f), map(g)) writes what map(g . f) writes: the k-th
\* output is g(f(k-th input)).
ComposeOfMapsIsMapOfComposition ==
    IsComposeOfMaps =>
        /\ SameOutput(eval(map(term.l.f \o term.r.f), input))
        /\ pc = "ready" => Len(out) = nAdv + 1
        /\ \A k \in 1..Len(out) :
              out[k] = ApplyFn(term.r.f, ApplyFn(term.l.f, Nth(input, k)))

\* compose(map(plus_one), map(plus_one)) on 1, 2, 3, .. has written 3, 4, 5
ComposeOfMapsIsMapOfCompositionWitness ==
    /\ term = Compose(Map(<<"plus_one">>), Map(<<"plus_one">>))
    /\ input = ListOf(<<1, 2>>, 3)
    /\ out = <<3, 4, 5>>

\* C6: compose(sp1, sp2) evaluated on s writes what sp2 writes when it is
\* evaluated on the output stream of sp1 evaluated on s, whatever sp1 and
\* sp2 begin with.
ComposeIsSequentialApplication ==
    term.op = "compose" =>
        SameOutput(eval(Build(term.r), eval(Build(term.l), input)))

\* C7: compose is associative: compose(compose(sp1, sp2), sp3) and
\* compose(sp1, compose(sp2, sp3)) write the same sequence on the same
\* input, and stall at the same point if they stall.
ComposeIsAssociative ==
    term.op = "compose" /\ term.l.op = "compose" =>
        SameOutput(eval(Build(Compose(term.l.l, Compose(term.l.r, term.r))),
                        input))

\* a composition of three hand-written processors, the first of which
\* begins with a Put, has written four elements
ComposeIsAssociativeWitness ==
    /\ term = Compose(Compose([op |-> "script", prog |-> <<"P", "G">>],
                              [op |-> "script", prog |-> <<"G", "P", "P">>]),
                      [op |-> "script", prog |-> <<"G", "G", "P">>])
    /\ input = ListOf(<<1, -1>>, 0)
    /\ out = <<17, 11, 9, 10>>

\* C8: map(id) is a left and a right identity of compose: composing it
\* before or after any processor sp does not change what sp writes.
MapIdIsIdentityOfCompose ==
    /\ term.op = "compose" /\ term.l = Map(<<"id">>) =>
          SameOutput(eval(Build(term.r), input))
    /\ term.op = "compose" /\ term.r = Map(<<"id">>) =>
          SameOutput(eval(Build(term.l), input))

\* no element satisfies p1 and p2 together
DisjointPreds(p1, p2) ==
    \A a \in -4..5 : ~(ApplyPred(p1, a) /\ ApplyPred(p2, a))

\* what two filters taking turns select from xs: the next element that
\* satisfies the predicate in control is written and control passes on
RECURSIVE Alternation(_, _, _)
Alternation(xs, p, q) ==
    IF xs = <<>> THEN <<>>
    ELSE IF ApplyPred(p, Head(xs))
    THEN <<Head(xs)>> \o Alternation(Tail(xs), q, p)
    ELSE Alternation(Tail(xs), p, q)

IsAlternateOfFilters ==
    /\ term.op = "alternate" /\ term.l.op = "filter" /\ term.r.op = "filter"
    /\ DisjointPreds(term.l.p, term.r.p)

\* C9: alternate(filter(p1), filter(p2)) with disjoint p1, p2 writes a
\* subsequence of the input whose odd positions satisfy p1 and whose even
\* positions satisfy p2, each output being the first element after the
\* previous output that satisfies the predicate in control.
AlternateOfFiltersTakesTurns ==
    IsAlternateOfFilters =>
        LET alt == Alternation(Prefix(input, Horizon), term.l.p, term.r.p)
        IN  /\ Len(out) <= Len(alt)
            /\ out = SubSeq(alt, 1, Len(out))
            /\ pc = "hung" => out = alt
            /\ \A k \in 1..Len(out) :
                  ApplyPred(IF k % 2 = 1 THEN term.l.p ELSE term.r.p, out[k])

\* on 1, -1, 1, 1, .. the two filters have written 1, -1, 1
AlternateOfFiltersTakesTurnsWitness ==
    /\ term = Alternate(Filter("is_greater_zero"), Filter("is_less_zero"))
    /\ input = ListOf(<<1, -1>>, 1)
    /\ out = <<1, -1, 1>>

\* the input is a stream of unsigned numbers none of which is 0
NoZeroInInput == \A k \in 1..Horizon : Nth(input, k) > 0

\* C10 as stated: the bind scenario on an input without 0 writes the input
\* unchanged, the k-th output being the k-th input.
BindScenarioWritesInput ==
    term = BindScenario /\ NoZeroInInput =>
        \A k \in 1..Len(out) : out[k] = Nth(input, k)

\* C10: the bind scenario on an input without 0 writes the input without
\* its first element, which bind reads to choose the branch: the k-th
\* output is the (k+1)-th input.
BindScenarioWritesInputTail ==
    term = BindScenario /\ NoZeroInInput =>
        /\ pc # "hung"
        /\ pc = "ready" => Len(out) = nAdv + 1
        /\ \A k \in 1..Len(out) : out[k] = Nth(input, k + 1)

\* on 1, 2, 3, 4, 5, .. the scenario has written 2, 3, 4, 5
BindScenarioWritesInputTailWitness ==
    /\ term = BindScenario
    /\ input = ListOf(<<1, 2, 3, 4>>, 5)
    /\ out = <<2, 3, 4, 5>>


(***************************************************************************)
(* Properties of bind.                                                     *)
(***************************************************************************)
\* C11: bind(sp, f) runs sp on the input until sp writes its first value
\* b; from there on the processor is f(b), continued where sp stopped
\* reading.  b itself is not written, the continuation of that Put is not
\* forced, and if sp is a Put already, bind(sp, f) is f(b) as constructed.
BindIsFamilyAtFirstPut ==
    (pc # "start" /\ term \in BindTerms) =>
        LET sp == Build(term.l)
        IN  IF sp.tag = "Put"
               THEN /\ Build(term) = family(term.fam, sp.b)
                    /\ SameOutput(eval(family(term.fam, sp.b), input))
               ELSE LET r == evalGet(sp, input)
                        fb == family(term.fam, r.sp.b)
                    IN  IF ~IsStream(r.stream) THEN pc = "hung"
                        ELSE /\ r.sp.tag = "Put"
                             /\ SameOutput(
                                  eval(fb, advanceIfGet(fb, r.stream).stream))

BindIsFamilyAtFirstPutWitness ==
    /\ pc = "ready"
    /\ term \in BindTerms
    /\ term.l = Once(<<"is_zero">>)
    /\ Len(out) >= 3
    /\ Len(delivered) >= 3

FirstRead == IF Build(term).tag = "Put" THEN 2 ELSE 1

\* C14: the elements handed to Get closures are consecutive elements of
\* the input, in its order: the j-th of them is the element j - 1 places
\* after the first, and the input has been advanced exactly as often as it
\* takes to get there, so none is handed over twice and none is passed
\* over after the first.
ReadsAreConsecutive ==
    (pc = "ready" /\ term \in Terms) =>
        /\ \A j \in 1..Len(delivered) :
              delivered[j] = Nth(input, FirstRead + j - 1)
        /\ nTail = IF delivered = <<>> THEN 0
                   ELSE FirstRead + Len(delivered) - 2

ReadsAreConsecutiveWitness ==
    /\ pc = "ready"
    /\ input = ListOf(<<1, 2, 3, 4>>, 5)
    /\ term = [op |-> "script", prog |-> <<"G", "G", "P">>]
    /\ delivered = <<1, 2, 3, 4>>
    /\ nTail = 3
    /\ Len(out) = 2

(***************************************************************************)
(* Properties of channel-backed streams.                                   *)
(***************************************************************************)
PutOnly == [op |-> "script", prog |-> <<"P">>]

\* C15: an advance of the output whose forced continuation is a Put
\* returns without an operation on the input, so it cannot wait for a
\* message, and a processor of Puts only never looks at the input or
\* advances it: whatever was sent is still in the channel.
PutsInARowNeedNoInput ==
    /\ (last = "tail" /\ log # <<>> /\ log[1] = "forcePut") =>
          (pc = "ready" /\ log = <<"forcePut">>)
    /\ term = PutOnly =>
          /\ pc \in {"start", "ready"}
          /\ CountIn(log, "head") = 0
          /\ nTail = 0
          /\ delivered = <<>>
          /\ chan.q = sent

PutsInARowNeedNoInputWitness ==
    /\ term = [op |-> "script", prog |-> <<"G", "P", "P">>]
    /\ last = "tail"
    /\ log = <<"forcePut">>
    /\ Len(out) = 2
    /\ chan.q = <<>>
    /\ sent = <<>>
    /\ Alive > 0

\* the advances of the stream that have returned
Advanced == Len(out) - 1

\* C16: the stream channel(cap, x0) gives has x0 as its head, whether or
\* not anything has been sent, and after n advances the n-th message sent:
\* the elements seen are x0 and then the messages in the order they were
\* sent, and the messages not yet seen are still in the channel, in order.
ReceiverIsPlaceholderThenFifo ==
    (term = Raw /\ pc # "start") =>
        /\ out[1] = Placeholder
        /\ Advanced <= Len(sent)
        /\ out = <<Placeholder>> \o SubSeq(sent, 1, Advanced)
        /\ chan.q = SubSeq(sent, Advanced + 1, Len(sent))
        /\ pc = "ready" => head(result) = out[Len(out)]

ReceiverIsPlaceholderThenFifoWitness ==
    /\ term = Raw
    /\ pc = "ready"
    /\ Len(prod) = 1
    /\ sent = <<1, 2>>
    /\ out = <<Placeholder, 1, 2>>

\* the messages of seq that producer p sent
FromProducer(seq, p) ==
    SelectSeq(seq, LAMBDA m : \E k \in DOMAIN TwoSenders[p] : TwoSenders[p][k] = m)

\* C17: with two producers sending on clones of one sender, what the
\* stream shows after the placeholder is an interleaving of what they
\* send: the messages of each producer that were received, then those in
\* the channel, then those it has yet to send are its messages, each once
\* and in its order.
ReceiverInterleavesProducers ==
    (term = Raw /\ pc # "start" /\ Len(prod) = 2) =>
        /\ \A p \in DOMAIN prod :
              FromProducer(Tail(out) \o chan.q, p) \o prod[p].todo
                  = TwoSenders[p]
        /\ Len(Tail(out)) + Len(chan.q)
              = Len(FromProducer(Tail(out) \o chan.q, 1))
                  + Len(FromProducer(Tail(out) \o chan.q, 2))

ReceiverInterleavesProducersWitness ==
    /\ term = Raw
    /\ Len(prod) = 2
    /\ out = <<Placeholder, 1, 3, 2>>

\* a producer has a message to send
SomeoneSends == \E p \in DOMAIN prod : prod[p].todo # <<>>

\* C18: an advance of the stream made while the channel is empty and a
\* sender is alive does not return; it goes on waiting as long as no
\* message is sent, and when it returns, the head is the oldest message
\* sent in the meantime.  Nothing but an advance waits.  If a producer has
\* a message to send, the advance returns in the end.
AdvanceWaitsForMessage ==
    /\ [][term = Raw =>
            /\ (nAdv' = nAdv + 1 /\ chan.q = <<>> /\ Alive > 0) =>
                  pc' = "blocked"
            /\ (pc = "blocked" /\ chan.q = <<>> /\ Alive > 0) =>
                  (pc' = "blocked" /\ out' = out)
            /\ (pc = "blocked" /\ pc' = "ready") =>
                  /\ chan.q # <<>>
                  /\ head(result') = Head(chan.q)
                  /\ out' = Append(out, Head(chan.q))
            /\ (pc # "blocked" /\ pc' = "blocked") => nAdv' = nAdv + 1]_vars
    /\ (term = Raw /\ pc = "blocked" /\ SomeoneSends) ~> pc = "ready"

AdvanceWaitsForMessageWitness ==
    /\ term = Raw
    /\ pc = "blocked"
    /\ last = "tail"
    /\ out = <<Placeholder>>
    /\ chan.q = <<1>>

\* an advance of the stream is begun, or one that waited goes on
AdvanceRuns == nAdv' = nAdv + 1 \/ (pc = "blocked" /\ pc' # "blocked")

\* C19 as stated: an advance made after every sender has been dropped
\* panics, whatever is in the channel.
AdvanceAfterDropPanics ==
    [][(term = Raw /\ AdvanceRuns /\ Alive = 0) => pc' = "panicked"]_vars

\* C19: an advance made after every sender has been dropped and every
\* message sent has been received panics: no stream is returned, nothing
\* is delivered then or later.  The messages still in the channel when
\* the last sender is dropped are delivered first, in order.
AdvanceOnEmptyDisconnectedPanics ==
    [][term = Raw =>
          /\ (AdvanceRuns /\ Alive = 0 /\ chan.q = <<>>) =>
                (pc' = "panicked" /\ out' = out)
          /\ (AdvanceRuns /\ Alive = 0 /\ chan.q # <<>>) =>
                (pc' = "ready" /\ out' = Append(out, Head(chan.q)))
          /\ pc' = "panicked" => (Alive = 0 /\ chan.q = <<>>)
          /\ pc = "panicked" => (pc' = "panicked" /\ out' = out)]_vars

AdvanceOnEmptyDisconnectedPanicsWitness ==
    /\ term = Raw
    /\ pc = "panicked"
    /\ Alive = 0
    /\ sent = <<1, 2>>
    /\ out = <<Placeholder, 1, 2>>

\* producer p is at a send
AtSend(p) == prod[p].alive /\ prod[p].todo # <<>>

\* C20: on channel(cap, x0) with cap = 0 a send is never held up; with
\* cap > 0 a send is held up exactly when cap messages are in the channel,
\* which are the messages sent and not yet received by an advance: the
\* placeholder is not one of them.
SendWaitsExactlyWhenFull ==
    /\ \A p \in DOMAIN prod :
          AtSend(p) =>
              ((ENABLED Send(p)) <=> (chan.cap = 0 \/ Len(chan.q) < chan.cap))
    /\ chan.cap > 0 => Len(chan.q) <= chan.cap
    /\ (term = Raw /\ pc # "start") => Len(chan.q) = Len(sent) - Advanced
    /\ pc = "start" => chan.q = sent

SendWaitsExactlyWhenFullWitness ==
    /\ term = Raw
    /\ pc = "ready"
    /\ chan.cap = 2
    /\ out = <<Placeholder>>
    /\ Len(sent) = 2
    /\ Len(chan.q) = 2
    /\ \E p \in DOMAIN prod : AtSend(p)

(***************************************************************************)
(* Failures.                                                               *)
(***************************************************************************)
\* a closure of the processor has panicked in the last call
ClosurePanicked ==
    \/ /\ term.op = "fragile"
       /\ last = "eval"
       /\ delivered # <<>>
       /\ ApplyPred(term.p, delivered[Len(delivered)])
    \/ /\ term.op \in {"once", "now"}
       /\ last = "tail"
       /\ nAdv = 1

\* the advance of the input has panicked in the last call
AdvancePanicked == Alive = 0 /\ chan.q = <<>> /\ term # PutOnly

\* C21: a call of eval or of an advance of the output panics exactly when
\* a closure of the processor or the advance of the input it runs panics:
\* the evaluator adds no panic and keeps none to itself.  The call that
\* panics yields no stream, and no output element is seen for it.
FailuresPropagate ==
    term # Raw =>
        /\ pc = "panicked" =>
              /\ result = Panic
              /\ Len(out) = nAdv
              /\ ClosurePanicked \/ AdvancePanicked
        /\ (term.op = "fragile" /\ pc # "start") =>
              IF ApplyPred(term.p, Placeholder)
              THEN pc = "panicked" /\ out = <<>>
              ELSE pc # "panicked" \/ AdvancePanicked
        /\ (term.op \in {"once", "now"} /\ nAdv >= 1) =>
              (pc = "panicked" /\ Len(out) = 1)
        /\ pc # "hung"

FailuresPropagateWitness ==
    /\ term = Once(<<"id">>)
    /\ pc = "panicked"
    /\ last = "tail"
    /\ out = <<Placeholder>>
    /\ Alive > 0

(***************************************************************************)
(* Properties of streams.                                                  *)
(***************************************************************************)
\* the i-th element of the list s as it was written down
ElemAt(s, i) ==
    IF i = 1 THEN s.x
    ELSE IF s.lz.t = "constant" THEN s.lz.x
    ELSE IF i - 1 <= Len(s.lz.pre) THEN s.lz.pre[i - 1]
    ELSE s.lz.c

\* the list s is constant(x) for some x
IsConstant(s) == s = constant(s.x)

\* C23: a list has its first element as head and advances to the stream
\* its suspended rest produces: after n advances its head is the element
\* n + 1 of the list as written, so constant(x) has head x after any number
\* of advances; the rest is forced once by each advance and by nothing
\* else.
ListsAdvanceToTheirRest ==
    /\ [](pc = "ready" =>
            /\ Len(out) = nAdv + 1
            /\ \A i \in 1..Len(out) : out[i] = ElemAt(input, i)
            /\ head(result) = ElemAt(input, nAdv + 1)
            /\ IsConstant(input) =>
                    (result = input /\ head(result) = input.x))
    /\ [](last = "tail" => log = <<"forceRest">>)
    /\ [](last \in {"none", "open", "head"} => log = <<>>)
    /\ [][last' = "tail" =>
            /\ result.kind = "Cons"
            /\ result' = lazyTail(result.lz)
            /\ out' = Append(out, head(result'))]_vars

ListsAdvanceToTheirRestWitness ==
    /\ input = ListOf(<<1, 2>>, 3)
    /\ out = <<1, 2, 3, 3>>
    /\ result = constant(3)
    /\ last = "head"
    /\ peek = <<3>>

\* C22: a call of head returns the element the stream was seen to have
\* when it was made or last advanced, and leaves the stream and the channel
\* as they are, so that it can be repeated with the same result; on a
\* receiver it returns at once, whatever the channel holds and whether or
\* not a sender is left.
HeadDoesNotConsume ==
    /\ [][last # "head" /\ last' = "head" =>
            /\ pc = "ready" /\ pc' = "ready"
            /\ peek' = <<head(result)>>
            /\ result' = result
            /\ chan' = chan
            /\ out' = out]_vars
    /\ [](last = "head" => peek = <<out[Len(out)]>>)

HeadDoesNotConsumeWitness ==
    /\ term = Raw
    /\ last = "head"
    /\ peek = <<Placeholder>>
    /\ Alive = 0
    /\ chan.q = <<1, 2>>

(***************************************************************************)
(* Properties of compose.                                                  *)
(***************************************************************************)
\* C24: when sp1 is a Get, compose(sp1, sp2) is a Get whatever sp2 is, its
\* closure hands the element to the closure of sp1 and composes what that
\* returns with sp2 as it was, and evaluating it delivers the head of the
\* input before anything is written.
ComposeReadsWhileLeftReads ==
    (term.op = "compose" /\ Build(term.l).tag = "Get") =>
        /\ Build(term).tag = "Get"
        /\ \A a \in Vals :
            apply(Build(term).k, a)
                = compose(apply(Build(term.l).k, a), Build(term.r))
        /\ pc # "start" => (delivered # <<>> /\ delivered[1] = head(input))

ComposeReadsWhileLeftReadsWitness ==
    /\ term = Compose(Map(<<"plus_one">>), [op |-> "script", prog |-> <<"P">>])
    /\ pc = "ready"
    /\ input = ListOf(<<1>>, 0)
    /\ delivered = <<1>>
    /\ out = <<InitReg>>

\* the first n elements of the sequence q, all of them if it has fewer
FirstN(q, n) == SubSeq(q, 1, IF n < Len(q) THEN n ELSE Len(q))

\* what the hand-written processor at step i with register reg writes, up
\* to n values, when the values vs are handed to its reads one after the
\* other, each of them once
RECURSIVE Fed(_, _, _, _, _)
Fed(prog, i, reg, vs, n) ==
    IF n = 0 THEN <<>>
    ELSE IF prog[i] = "P"
    THEN <<reg>> \o Fed(prog, NextIdx(prog, i), reg + PutStep, vs, n - 1)
    ELSE IF vs = <<>> THEN <<>>
    ELSE Fed(prog, NextIdx(prog, i), Head(vs), Tail(vs), n)

\* what the processor t writes, up to n values, when the values vs are
\* handed to its reads one after the other, each of them once
Pipe(t, vs, n) ==
    CASE t.op = "map" -> FirstN([j \in 1..Len(vs) |-> ApplyFn(t.f, vs[j])], n)
      [] t.op = "filter" ->
            FirstN(SelectSeq(vs, LAMBDA v : ApplyPred(t.p, v)), n)
      [] t.op = "script" -> Fed(t.prog, 1, InitReg, vs, n)

\* more values than sp2 can read for the outputs of a run
Span == 3 * (MaxAdv + 2)

\* C25: the outputs of compose(sp1, sp2) are what sp2 writes when the
\* values sp1 writes on the elements delivered to it are handed to the
\* reads of sp2 one after the other, each of them once: a value sp1 has
\* written while sp2 writes is kept for the next read of sp2.
ComposeFeedsEachValueOnce ==
    (term.op = "compose" /\ out # <<>>) =>
        out = FirstN(Pipe(term.r, Pipe(term.l, delivered, Span), Len(out)),
                     Len(out))

ComposeFeedsEachValueOnceWitness ==
    /\ term = Compose(Map(<<"plus_one">>),
                      [op |-> "script", prog |-> <<"P", "G">>])
    /\ input = ListOf(<<1, 2>>, 3)
    /\ delivered = <<1, 2, 3>>
    /\ out = <<InitReg, 2, 3>>

\* the client waits for a message that has not been sent
WaitsForInput == pc = "blocked" /\ chan.q = <<>>

\* C26: where compose(map(f), map(g)) waits on a channel for a message,
\* map(g . f) given the placeholder and the messages sent so far waits too:
\* it cannot write the output the client is waiting for either.
ComposeOfMapsWaitsLikeMap ==
    (term.op = "compose" /\ term.l.op = "map" /\ term.r.op = "map"
        /\ WaitsForInput) =>
        Len(Prefix(eval(map(term.l.f \o term.r.f),
                        Receiver(Placeholder, sent, 1)),
                   Len(out) + 1)) = Len(out)

\* C27: building compose(sp1, sp2) returns a processor, and it does so
\* with no more activations of compose on the stack than handing over one
\* value takes, however many values sp1 writes in a row that sp2 reads
\* without writing.
ComposeReturnsInBoundedDepth ==
    (term.op = "compose" /\ pc # "start") =>
        /\ IsProc(Build(term))
        /\ composeCalls(Build(term.l), Build(term.r), MaxLoop) <= 2

(***************************************************************************)
(* Properties of alternate.  A processor on its own is followed as a       *)
(* machine that either has a value to write or waits for an element.       *)
(***************************************************************************)
\* the processor t before it has read or written anything
Mach(t) == [t |-> t, i |-> 1, reg |-> InitReg, pend |-> <<>>]

\* the machine is at a Put
Writes(m) ==
    IF m.t.op = "script" THEN m.t.prog[m.i] = "P" ELSE m.pend # <<>>

\* the value of that Put
Written(m) == IF m.t.op = "script" THEN m.reg ELSE m.pend[1]

\* the machine after that Put
AfterWrite(m) ==
    IF m.t.op = "script"
    THEN [m EXCEPT !.i = NextIdx(m.t.prog, @), !.reg = @ + PutStep]
    ELSE [m EXCEPT !.pend = <<>>]

\* the machine after its Get has been given the element v
AfterRead(m, v) ==
    CASE m.t.op = "script" ->
            [m EXCEPT !.i = NextIdx(m.t.prog, @), !.reg = v]
      [] m.t.op = "map" -> [m EXCEPT !.pend = <<ApplyFn(m.t.f, v)>>]
      [] m.t.op = "filter" ->
            [m EXCEPT !.pend = IF ApplyPred(m.t.p, v) THEN <<v>> ELSE <<>>]

\* up to n values written when m1 is in control, m2 waits unchanged, the
\* elements vs go one by one to the machine in control, and control passes
\* to the other machine after each value written
RECURSIVE Turns(_, _, _, _)
Turns(m1, m2, vs, n) ==
    IF n = 0 THEN <<>>
    ELSE IF Writes(m1)
    THEN <<Written(m1)>> \o Turns(m2, AfterWrite(m1), vs, n - 1)
    ELSE IF vs = <<>> THEN <<>>
    ELSE Turns(AfterRead(m1, Head(vs)), m2, Tail(vs), n)

\* C28: the outputs of alternate(sp1, sp2) are the values written when sp1
\* starts in control, control passes to the other processor at each Put
\* and only then, each element read goes to the processor in control and
\* to no other, and the processor not in control stays as it is: the odd
\* outputs are written by sp1 and the even ones by sp2.
AlternateSwapsAtEachPut ==
    (term.op = "alternate" /\ out # <<>>) =>
        out = FirstN(Turns(Mach(term.l), Mach(term.r), delivered, Len(out)),
                     Len(out))

\* alternate(get(|a| get(|b| put(b, ..))), map(plus_one)) on 1, 2, 3, 4, 5:
\* sp1 reads 1 and 2 and writes 2, sp2 reads 3 and writes 4, sp1 reads 4
\* and 5 and writes 5
AlternateSwapsAtEachPutWitness ==
    /\ term = Alternate([op |-> "script", prog |-> <<"G", "G", "P">>],
                        Map(<<"plus_one">>))
    /\ input = ListOf(<<1, 2, 3, 4>>, 5)
    /\ delivered = <<1, 2, 3, 4, 5>>
    /\ out = <<2, 4, 5>>

(***************************************************************************)
(* Properties of eval on either kind of stream.                            *)
(***************************************************************************)
\* the elements the receiver has taken from the channel, placeholder first
Received == <<Placeholder>> \o SubSeq(sent, 1, Len(sent) - Len(chan.q))

\* the call of eval has been made and the output has not been advanced
EvalCalled == pc # "start" /\ nAdv = 0 /\ term.op \in {"map", "filter", "script"}

\* C29: eval returns exactly when a Put is reached, and then with the
\* value of that Put as the head of the result; the elements it has read
\* are the ones the processor needed to get there.  Where the elements of
\* the input do not lead the processor to a Put, eval does not return: on
\* a list it loops, on a receiver it waits for a message while a sender
\* is left and panics in recv when none is.
EvalReturnsAtFirstPut ==
    EvalCalled =>
        /\ pc = "ready" =>
              (Len(out) = 1 /\ out = Pipe(term, delivered, 1))
        /\ pc = "hung" =>
              /\ input.kind = "Cons" /\ out = <<>>
              /\ Pipe(term, Prefix(input, Horizon), 1) = <<>>
        /\ pc \in {"blocked", "panicked"} =>
              /\ input.kind = "Recv" /\ out = <<>>
              /\ Pipe(term, Received, 1) = <<>>
        /\ pc = "panicked" => (Alive = 0 /\ chan.q = <<>>)

\* filter(is_greater_zero) loops on -1, -1, ..
EvalReturnsAtFirstPutWitness ==
    /\ term = Filter("is_greater_zero")
    /\ input = constant(-1)
    /\ pc = "hung"
    /\ last = "eval"

\* the i-th element of the input: of a list as it was written, of a
\* receiver the placeholder and then the messages in the order sent
Elem(i) ==
    IF input.kind = "Recv" THEN (<<Placeholder>> \o sent)[i]
    ELSE ElemAt(input, i)

\* C30: when the processor given to eval is a Put, the first element of
\* the input (the placeholder of a receiver) is handed to no closure: the
\* first Get reached is given the second element and the ones after it
\* the elements that follow; when the processor is a Get, its closure is
\* given the first element.
InitialHeadGoesToInitialGetOnly ==
    (term.op # "raw" /\ IsProc(Build(term))) =>
        /\ (Build(term).tag = "Get" /\ pc # "start") =>
              (delivered # <<>> /\ delivered[1] = head(input))
        /\ Build(term).tag = "Get" =>
              \A j \in 1..Len(delivered) : delivered[j] = Elem(j)
        /\ Build(term).tag = "Put" =>
              \A j \in 1..Len(delivered) : delivered[j] = Elem(j + 1)

\* put(7, || get(|a| put(a, ..))) on a receiver: the message 1 is read,
\* the placeholder is not
InitialHeadGoesToInitialGetOnlyWitness ==
    /\ term = [op |-> "script", prog |-> <<"P", "G">>]
    /\ input.kind = "Recv"
    /\ sent = <<1, 2>>
    /\ delivered = <<1>>
    /\ out = <<InitReg, 1>>

(***************************************************************************)
(* Properties of print.                                                    *)
(***************************************************************************)
\* head, tail, head, tail, .. : 2 * n calls
HeadsAndTails(n) == [i \in 1..(2 * n) |-> IF i % 2 = 1 THEN "head" ELSE "tail"]

\* the call of print has returned
PrintReturned == last = "print" /\ pc = "ready"

\* C31: print(stream, n) returns after n calls of head and n of tail, each
\* head followed by a tail; it has shown the elements 0 .. n - 1 of the
\* stream and returns the stream whose head is the element n.  On a
\* receiver it has then received n messages, and while fewer have been
\* sent it has not returned.
PrintAdvancesNTimes ==
    /\ PrintReturned =>
          /\ prt.left = 0
          /\ log = HeadsAndTails(prt.n)
          /\ nAdv = prt.n
          /\ prt.shown = [i \in 1..prt.n |-> Elem(i)]
          /\ head(result) = Elem(prt.n + 1)
          /\ input.kind = "Recv" => Len(sent) - Len(chan.q) = prt.n
    /\ (last = "print" /\ input.kind = "Recv" /\ Len(sent) < prt.n) =>
          pc # "ready"

\* print(stream, 2) on a receiver has shown the placeholder and the first
\* message and returns the receiver that holds the second
PrintAdvancesNTimesWitness ==
    /\ PrintReturned
    /\ input.kind = "Recv"
    /\ prt = [n |-> 2, left |-> 0, shown |-> <<Placeholder, 1>>]
    /\ head(result) = 2
    /\ chan.q = <<>>

(***************************************************************************)
(* Properties of a producer running beside the client.                     *)
(***************************************************************************)
\* what one producer sends in all: what it has sent and what it has left
Messages == sent \o prod[1].todo

\* the evaluation on a receiver that finds every message in the channel
AllSentBefore == eval(Build(term), Receiver(Placeholder, Messages, 1))

\* C32: with one producer, whenever its messages are sent the outputs seen
\* so far are the first outputs of the evaluation that finds all of the
\* messages in the channel, and once they are all received the client has
\* seen as many outputs as that evaluation yields.
OutputIndependentOfSendTimes ==
    (Len(prod) = 1 /\ term.op # "raw") =>
        /\ out = Prefix(AllSentBefore, Len(out))
        /\ (pc \in {"blocked", "panicked"} /\ out # <<>>
                /\ prod[1].todo = <<>> /\ chan.q = <<>>) =>
              Len(Prefix(AllSentBefore, Len(out) + 1)) = Len(out)

\* filter(is_greater_zero) has written 1 and 2 although eval was called
\* before anything was sent
OutputIndependentOfSendTimesWitness ==
    /\ Len(prod) = 1
    /\ term = Filter("is_greater_zero")
    /\ sent = <<1, 2>>
    /\ out = <<1, 2>>
    /\ delivered = <<Placeholder, 1, 2>>
    /\ nTail = 2

\* producer p is at a send that the channel does not take
HeldUp(p) == AtSend(p) /\ chan.cap > 0 /\ Len(chan.q) >= chan.cap

\* the step is one of the client in which it takes a message
ClientTakes ==
    /\ sent' = sent /\ prod' = prod
    /\ Len(chan'.q) < Len(chan.q)

RECURSIVE Typed(_, _)
Typed(down, es) ==
    IF es = <<>> THEN <<>>
    ELSE CASE Head(es).ev = "Key" ->
                <<Head(es).c # 0>> \o Typed(down, Tail(es))
           [] Head(es).ev = "ShiftDepressed" /\ ~down ->
                <<TRUE>> \o Typed(TRUE, Tail(es))
           [] Head(es).ev = "ShiftReleased" /\ down ->
                <<TRUE>> \o Typed(FALSE, Tail(es))
           [] OTHER -> Typed(down, Tail(es))

\* the values of q before its first FALSE
RECURSIVE Leading(_)
Leading(q) ==
    IF q = <<>> \/ ~Head(q) THEN <<>> ELSE <<Head(q)>> \o Leading(Tail(q))

\* the events of es before the first Key(0)
RECURSIVE BeforeKey0(_)
BeforeKey0(es) ==
    IF es = <<>> \/ Head(es) = Key(0) THEN <<>>
    ELSE <<Head(es)>> \o BeforeKey0(Tail(es))

\* C34: the keyboard, started in default on the placeholder and the events
\* sent, reads them in order and writes what the state machine prescribes,
\* in event order; once it has written a FALSE, the TRUEs before it are as
\* many as the events before the first Key(0) that make an output.
KeyboardFollowsStateMachine ==
    /\ delivered = SubSeq(<<input.x>> \o sent, 1, Len(delivered))
    /\ out = FirstN(Typed(FALSE, delivered), Len(out))
    /\ (pc = "blocked" /\ chan.q = <<>>) =>
          (delivered = <<input.x>> \o sent /\ Typed(FALSE, delivered) = out)
    /\ (\E i \in 1..Len(out) : ~out[i]) =>
          Len(Leading(out)) = Len(Typed(FALSE, BeforeKey0(delivered)))

\* ShiftDepressed, ShiftDepressed, Key(0): TRUE for the placeholder, nothing
\* for the second ShiftDepressed, FALSE for the key
KeyboardFollowsStateMachineWitness ==
    /\ input.x = ShiftDepressed
    /\ sent = <<ShiftDepressed, Key(0)>>
    /\ delivered = <<ShiftDepressed, ShiftDepressed, Key(0)>>
    /\ out = <<TRUE, FALSE>>
    /\ pc = "ready"

(***************************************************************************)
(* C35: in the pelican crossing, whatever events arrive, the pedestrian    *)
(* light is green only while the vehicle light is red: when the last       *)
(* SetPedestrianLights written is Green, the last SetVehicleLights written *)
(* is Red, so the two are never green together and the pedestrians never   *)
(* have green while the vehicles have yellow.                              *)
(***************************************************************************)
RECURSIVE Light(_, _)
\* the colour the last capability of the kind in caps has set
Light(kind, caps) ==
    IF caps = <<>> THEN "None"
    ELSE IF caps[Len(caps)].cap = kind THEN caps[Len(caps)].color
    ELSE Light(kind, SubSeq(caps, 1, Len(caps) - 1))

PedestrianLight == Light("SetPedestrianLights", out)
VehicleLight == Light("SetVehicleLights", out)

PedestriansGreenOnlyOnVehiclesRed ==
    PedestrianLight = "Green" => VehicleLight = "Red"

\* witness: the pedestrians have green, after the vehicles had green and
\* yellow
PedestriansGreenOnlyOnVehiclesRedWitness ==
    /\ term = Pelican
    /\ PedestrianLight = "Green"
    /\ \E i, j \in DOMAIN out :
          /\ i < j
          /\ out[i] = SetVehicleLights("Green")
          /\ out[j] = SetVehicleLights("Yellow")

(***************************************************************************)
(* C36: an Exit read in any substate of operational makes the machine      *)
(* write SetPedestrianLights(Black), SetVehicleLights(Black) and Break in  *)
(* that order without reading anything more, and Break for every element   *)
(* read after that; the driver leaves its loop at the first Break, so      *)
(* once the input simulator has sent Exit the driver eventually returns.   *)
(***************************************************************************)
\* what off writes before it maps
SwitchOff ==
    <<SetPedestrianLights("Black"), SetVehicleLights("Black"), Break>>

\* the last n capabilities written
LastN(n) == SubSeq(out, Len(out) - n + 1, Len(out))

\* Exit was the last event read, and since then the capabilities of off
\* have been written, as far as the driver has got
SwitchingOff ==
    /\ delivered[Len(delivered)] = "Exit"
    /\ \A i \in 1..(Len(delivered) - 1) : delivered[i] # "Exit"
    /\ \E n \in 1..Len(SwitchOff) :
          /\ n <= Len(out)
          /\ LastN(n) = FirstN(SwitchOff, n)
          /\ \A i \in 1..(Len(out) - n) : out[i] \notin
                {SwitchOff[j] : j \in DOMAIN SwitchOff}

\* the machine that has written Break writes Break for whatever it reads
BreaksForEver ==
    LET sp == force(result.lz.lazy_sp)
    IN  /\ sp.tag = "Get"
        /\ \A event \in PelicanEvents :
              /\ apply(sp.k, event).tag = "Put"
              /\ apply(sp.k, event).b = Break
              /\ force(apply(sp.k, event).lz) = sp

ExitSwitchesOff ==
    /\ (\E i \in DOMAIN delivered : delivered[i] = "Exit") => SwitchingOff
    /\ \A i \in 1..(Len(out) - 1) : out[i] # Break
    /\ (out # <<>> /\ out[Len(out)] = Break) => BreaksForEver
    /\ pc = "done" => out[Len(out)] \in {Break, CallForHelp}

DriverReturned == pc = "done"

ExitStopsTheDriver == []ExitSwitchesOff /\ (ExitSent ~> DriverReturned)

\* witness: the driver has returned at the Break of an Exit that was read
\* in vehicles_green_pushed, a state that ignores Push
ExitStopsTheDriverWitness ==
    /\ term = Pelican
    /\ pc = "done"
    /\ delivered = <<"Timeout", "Push", "Push", "Exit">>
    /\ Len(out) > Len(SwitchOff)
    /\ LastN(Len(SwitchOff)) = SwitchOff

(***************************************************************************)
(* C37: under the driver, with one Timeout sent for each EmitTimeoutAfter  *)
(* the driver handles and Push events sent at any time, at most one        *)
(* Timeout is on its way at any time, and none while the machine waits in  *)
(* vehicles_green_timedout; so UnexpectedTimeout is never written and the  *)
(* error state, which writes CallForHelp, is never entered.                *)
(***************************************************************************)
\* the Timeouts the feedback loop has yet to send and those in the channel
Outstanding ==
    Len(prod[Feedback].todo)
        + Cardinality({i \in DOMAIN chan.q : chan.q[i] = "Timeout"})

\* the machine waits for an event in state st
WaitsIn(st) ==
    /\ pc = "blocked"
    /\ result.sp.tag = "Get"
    /\ result.sp.k = [c |-> "case_capture_transition", st |-> st]

NoUnexpectedTimeout ==
    /\ Outstanding <= 1
    /\ WaitsIn("vehicles_green_timedout") => Outstanding = 0
    /\ \A i \in DOMAIN out :
          out[i].cap \notin {"UnexpectedTimeout", "CallForHelp"}

\* witness: the machine waits in vehicles_green_timedout, having read the
\* two Timeouts the feedback loop has sent
NoUnexpectedTimeoutWitness ==
    /\ term = Pelican
    /\ WaitsIn("vehicles_green_timedout")
    /\ delivered = <<"Timeout", "Timeout">>
    /\ sent = delivered

(***************************************************************************)
(* C38: on map(f) the heap-free evaluator of the example and the           *)
(* evaluator of the crate agree step for step: after the same number of    *)
(* calls they have produced the same outputs, handed the same elements to  *)
(* the closure, performed the same operations in the last call and stand   *)
(* at the same place of the input; the input is advanced only right after  *)
(* a continuation has been forced to a Get.                                *)
(***************************************************************************)
\* both evaluators have been called, and tail as often on the one stream
\* as on the other
InStep ==
    /\ pc = "ready"
    /\ heapless.pc = "ready"
    /\ nAdv = heapless.n

\* every tail in the operations q comes right after a forcing to a Get
AdvancesAfterForcedGet(q) ==
    \A i \in DOMAIN q : q[i] = "tail" => i > 1 /\ q[i - 1] = "forceGet"

HeaplessAgreesWithBoxed ==
    /\ InStep =>
          /\ heapless.out = out
          /\ heapless.reads = delivered
          /\ heapless.log = log
          /\ heapless.stream.stream = result.lz.stream
          /\ heaplessHead(heapless.stream) = head(result)
    /\ AdvancesAfterForcedGet(heapless.log)
    /\ AdvancesAfterForcedGet(log)

\* witness: both evaluators have advanced twice on a list of different
\* elements, under a function that changes them
HeaplessAgreesWithBoxedWitness ==
    /\ InStep
    /\ term = Map(<<"plus_one">>)
    /\ heapless.n = 2
    /\ heapless.out = <<2, 3, 4>>
    /\ CountIn(heapless.log, "tail") = 1

====
